---- MODULE Spec2Model ----
(***************************************************************************)
(* LCRProvider (api/services/telephony/providers/lcr_provider.py): the SIP *)
(* backend of the TelephonyProvider contract.  The model follows the       *)
(* provider objects, the VoIPPhone sessions they create lazily, the        *)
(* class-level ThreadPoolExecutor that runs the blocking dials, and each   *)
(* initiate_call request from its submission to its return or raise.       *)
(* A worker thread is preemptible between statements, so _get_sip_client   *)
(* is split at every read and write of self.sip_client.                    *)
(***************************************************************************)
EXTENDS Integers, Sequences, FiniteSets, TLC

VARIABLES host, port, password, username, from_numbers, sip_client,
          config_of, sessions, req, ret, gate, websocket, logger

vars == <<host, port, password, username, from_numbers, sip_client,
          config_of, sessions, req, ret, gate, websocket, logger>>

\* a provider object's attributes, and the config it was constructed from
provider == <<host, port, password, username, from_numbers, sip_client, config_of>>

(* ----------------------------- bounds --------------------------------- *)

\* provider instances and initiate_call requests of the dial specification
MaxProviders == 2
MaxRequests == 2
\* requests of the worker-pool specification beyond the pool's max_workers
PoolExcess == 1
\* providers and requests of the specifications of the lookups and the gate
QueryProviders == 1
QueryRequests == 1

(* ------------------------- values and inputs -------------------------- *)

\* Python's None for an absent credential (dict.get without a default)
None == "None"

\* self.sip_client = None
NoPhone == 0

DEFAULT_HOST == "trunksip11.lcrcom.es"
DEFAULT_PORT == 5060
max_workers == 5
PROVIDER_NAME == "lcr"

Digit == [c \in {"0", "1", "2", "3", "4", "5", "6", "7", "8", "9"} |->
            CASE c = "0" -> 0 [] c = "1" -> 1 [] c = "2" -> 2 [] c = "3" -> 3
              [] c = "4" -> 4 [] c = "5" -> 5 [] c = "6" -> 6 [] c = "7" -> 7
              [] c = "8" -> 8 [] c = "9" -> 9]

RECURSIVE ParseDigits(_, _)
ParseDigits(s, acc) ==
    IF s = <<>> THEN acc ELSE ParseDigits(Tail(s), acc * 10 + Digit[Head(s)])

\* Python values of more than one type carry their type: [int |-> 5080],
\* [str |-> <<"5", "0", "7", "0">>] (a string as its characters, where they
\* are read), [str |-> "+15551230000"], [list |-> <<...>>]
isinstance(x, type) == type \in DOMAIN x

\* int(x): an int is itself, a string of decimal digits is parsed, and
\* anything else raises ValueError
IntOk(x) ==
    \/ isinstance(x, "int")
    \/ /\ isinstance(x, "str")
       /\ x.str # <<>>
       /\ \A i \in DOMAIN x.str : x.str[i] \in DOMAIN Digit
IntOf(x) == IF isinstance(x, "int") THEN x.int ELSE ParseDigits(x.str, 0)

\* config.get(key, default)
Get(config, key, default) == IF key \in DOMAIN config THEN config[key] ELSE default

\* bool(x) of a credential: None and "" are falsy
Truthy(x) == x # None /\ x # ""

FullConfig ==
    [host |-> "h", api_key |-> "u", auth_token |-> "p",
     from_numbers |-> [str |-> "+15551230000"]]

Configs ==
    { FullConfig,
      [api_key |-> "u", auth_token |-> "p", port |-> [str |-> <<"5", "0", "7", "0">>],
       from_numbers |-> [list |-> <<"+15551230000", "+15551230001">>]],
      [host |-> "", api_key |-> "u", auth_token |-> "p"],
      [host |-> "h", auth_token |-> "p", from_numbers |-> [list |-> <<>>]],
      [host |-> "h", api_key |-> "u", auth_token |-> "", port |-> [int |-> 5080]],
      [host |-> "h", api_key |-> "u", auth_token |-> "p",
       port |-> [str |-> <<"s", "i", "p">>]] }

\* a complete identity, and one whose username is empty
DialConfigs ==
    { FullConfig, [host |-> "h", api_key |-> "", auth_token |-> "p"] }

DialNumbers == {"+15557654321"}

Providers == DOMAIN sip_client
Requests == DOMAIN req

(* ----------------------------- __init__ ------------------------------- *)

\* mutant: a string is taken for the list of its numbers and none is found
FromNumbers_unwrapped(config) ==
    LET f == Get(config, "from_numbers", [list |-> <<>>])
    IN IF isinstance(f, "str") THEN <<>> ELSE f.list

\* isinstance(self.from_numbers, str): a string is wrapped into a list
FromNumbers(config) ==
    LET f == Get(config, "from_numbers", [list |-> <<>>])
    IN IF isinstance(f, "str") THEN <<f.str>> ELSE f.list

\* LCRProvider(config): a new provider object; int() of a malformed port
\* raises and no object comes to exist
LCRProvider(config, limit) ==
    /\ Cardinality(Providers) < limit
    /\ IntOk(Get(config, "port", [int |-> DEFAULT_PORT]))
    /\ LET p == Cardinality(Providers) + 1
       IN /\ host' = host @@ (p :> Get(config, "host", DEFAULT_HOST))
          /\ port' = port @@ (p :> IntOf(Get(config, "port", [int |-> DEFAULT_PORT])))
          /\ password' = password @@ (p :> Get(config, "auth_token", None))
          /\ username' = username @@ (p :> Get(config, "api_key", None))
          /\ from_numbers' = from_numbers @@ (p :> FromNumbers(config))
          /\ sip_client' = sip_client @@ (p :> NoPhone)
          /\ config_of' = config_of @@ (p :> config)
    /\ UNCHANGED <<sessions, req, ret, gate, websocket, logger>>

(* -------------------------- validate_config --------------------------- *)

\* mutants: the host left out of the test; "or" in place of "and"
validate_config_no_host(p) == Truthy(password[p]) /\ Truthy(username[p])
validate_config_any(p) == Truthy(host[p]) \/ Truthy(password[p]) \/ Truthy(username[p])

validate_config(p) == Truthy(host[p]) /\ Truthy(password[p]) /\ Truthy(username[p])

(* --------------------------- the executor ----------------------------- *)

Executing == {"get", "new", "start", "return", "call"}

\* work items a worker thread of _executor is running
Running == {r \in Requests : req[r].pc \in Executing}

\* work items waiting in the executor's FIFO queue (ids are submission order)
Queued == {r \in Requests : req[r].pc = "queued"}

\* initiate_call has returned nothing (yet)
NoResult == [none |-> TRUE]

Raise(r, e) == req' = [req EXCEPT ![r].pc = "raised", ![r].error = e]

(* --------------------------- initiate_call ---------------------------- *)

\* initiate_call up to its await: the dial is handed to the shared executor
initiate_call(p, to_number, limit) ==
    /\ Len(req) < limit
    /\ req' = Append(req, [self |-> p, to_number |-> to_number, pc |-> "queued",
                           phone |-> NoPhone, call_id |-> None, error |-> None,
                           attempts |-> 0, result |-> NoResult,
                           cancelled |-> FALSE])
    /\ UNCHANGED <<provider, sessions, ret, gate, websocket, logger>>

\* mutant: an executor that starts a thread for every work item
run_in_executor_unbounded(r) ==
    /\ r \in Queued
    /\ \A q \in Queued : r <= q
    /\ req' = [req EXCEPT ![r].pc = "get"]
    /\ UNCHANGED <<provider, sessions, ret, gate, websocket, logger>>

\* a worker thread takes the oldest queued work item when one of the
\* max_workers threads is free, and enters _do_sip_call
run_in_executor(r) ==
    /\ r \in Queued
    /\ \A q \in Queued : r <= q
    /\ Cardinality(Running) < max_workers
    /\ req' = [req EXCEPT ![r].pc = "get"]
    /\ UNCHANGED <<provider, sessions, ret, gate, websocket, logger>>

(* ------------------- _get_sip_client, on a worker --------------------- *)

ConfigInvalid == "ValueError: LCR SIP credentials missing"
SessionUnavailable == "SessionUnavailable"
DialFailed == "DialFailed"

\* lines 61-63: the unguarded test of self.sip_client, then validate_config
get_sip_client_check(r) ==
    /\ req[r].pc = "get"
    /\ LET p == req[r].self
       IN IF sip_client[p] # NoPhone
          THEN req' = [req EXCEPT ![r].pc = "return"]
          ELSE IF ~validate_config(p)
               THEN Raise(r, ConfigInvalid)
               ELSE req' = [req EXCEPT ![r].pc = "new"]
    /\ UNCHANGED <<provider, sessions, ret, gate, websocket, logger>>

\* mutant: a constructor that raised is tried again by the same request
get_sip_client_new_retry(r) ==
    /\ req[r].pc = "new"
    /\ LET p == req[r].self
       IN \/ /\ sessions' = Append(sessions,
                    [host |-> host[p], port |-> port[p], username |-> username[p],
                     password |-> password[p], callCallback |-> p,
                     status |-> "inactive", calls |-> 0])
             /\ sip_client' = [sip_client EXCEPT ![p] = Len(sessions) + 1]
             /\ req' = [req EXCEPT ![r].pc = "start", ![r].attempts = @ + 1]
          \/ /\ req' = [req EXCEPT ![r].attempts = @ + 1]
             /\ UNCHANGED <<sessions, sip_client>>
    /\ UNCHANGED <<host, port, password, username, from_numbers, config_of, ret, gate, websocket, logger>>

\* lines 68-75: VoIPPhone(...) is constructed and stored in self.sip_client;
\* when the constructor raises nothing is stored
get_sip_client_new(r) ==
    /\ req[r].pc = "new"
    /\ LET p == req[r].self
       IN \/ /\ sessions' = Append(sessions,
                    [host |-> host[p], port |-> port[p], username |-> username[p],
                     password |-> password[p], callCallback |-> p,
                     status |-> "inactive", calls |-> 0])
             /\ sip_client' = [sip_client EXCEPT ![p] = Len(sessions) + 1]
             /\ req' = [req EXCEPT ![r].pc = "start", ![r].attempts = @ + 1]
          \/ /\ req' = [req EXCEPT ![r].pc = "raised", ![r].error = SessionUnavailable,
                                   ![r].attempts = @ + 1]
             /\ UNCHANGED <<sessions, sip_client>>
    /\ UNCHANGED <<host, port, password, username, from_numbers, config_of, ret, gate, websocket, logger>>

\* line 77: self.sip_client.start(), on whatever self.sip_client now holds;
\* the engine binds its socket here and may raise
get_sip_client_start(r) ==
    /\ req[r].pc = "start"
    /\ LET s == sip_client[req[r].self]
       IN \/ /\ sessions' = [sessions EXCEPT ![s].status = "started"]
             /\ req' = [req EXCEPT ![r].pc = "return"]
          \/ /\ sessions' = [sessions EXCEPT ![s].status = "failed"]
             /\ Raise(r, SessionUnavailable)
    /\ UNCHANGED <<provider, ret, gate, websocket, logger>>

\* mutant: the session is handed to one dial at a time
get_sip_client_return_exclusive(r) ==
    /\ req[r].pc = "return"
    /\ \A q \in Requests :
          req[q].pc = "call" => req[q].phone # sip_client[req[r].self]
    /\ req' = [req EXCEPT ![r].pc = "call", ![r].phone = sip_client[req[r].self]]
    /\ UNCHANGED <<provider, sessions, ret, gate, websocket, logger>>

\* line 80 and line 92: return self.sip_client; phone = ...
get_sip_client_return(r) ==
    /\ req[r].pc = "return"
    /\ req' = [req EXCEPT ![r].pc = "call", ![r].phone = sip_client[req[r].self]]
    /\ UNCHANGED <<provider, sessions, ret, gate, websocket, logger>>

(* ---------------------------- _do_sip_call ---------------------------- *)

\* call.callID: the Call-ID the engine gives the n-th call of session s.  It
\* is made of the session's own call counter and the local address the
\* session was given (myIP, line 73), and of nothing that tells two sessions
\* apart
MY_IP == "0.0.0.0"
callID(s, n) == [seq |-> n, myIP |-> MY_IP]

\* str(x)
str(x) == ToString(x)

\* mutant: the except branch dials again instead of re-raising
do_sip_call_again(r) ==
    /\ req[r].pc = "call"
    /\ LET s == req[r].phone
       IN \/ /\ sessions' = [sessions EXCEPT ![s].calls = @ + 1]
             /\ req' = [req EXCEPT ![r].pc = "done",
                                   ![r].call_id = str(callID(s, sessions[s].calls + 1))]
          \/ /\ req' = [req EXCEPT ![r].pc = "get", ![r].phone = NoPhone]
             /\ UNCHANGED sessions
    /\ UNCHANGED <<provider, ret, gate, websocket, logger>>

\* lines 93-98: phone.call(to_number) returns the call, or raises and the
\* exception is logged and re-raised; either way the worker is free again
do_sip_call(r) ==
    /\ req[r].pc = "call"
    /\ LET s == req[r].phone
       IN \/ /\ sessions' = [sessions EXCEPT ![s].calls = @ + 1]
             /\ req' = [req EXCEPT ![r].pc = "done",
                                   ![r].call_id = str(callID(s, sessions[s].calls + 1))]
          \/ /\ Raise(r, DialFailed)
             /\ UNCHANGED sessions
    /\ UNCHANGED <<provider, ret, gate, websocket, logger>>

\* the next statement of the worker that runs r
WorkerStep(r) ==
    \/ get_sip_client_check(r) \/ get_sip_client_new(r) \/ get_sip_client_start(r)
    \/ get_sip_client_return(r) \/ do_sip_call(r)

(* --------------------------- _on_call_event --------------------------- *)

\* nothing has been logged by _on_call_event
NoEvent == [state |-> "none"]

CallStates == {"RINGING", "ANSWERED", "ENDED"}

\* mutant: the callback drops the provider's session when a call has ended
on_call_event_drop(s, state) ==
    /\ sessions[s].status = "started"
    /\ logger' = [self |-> sessions[s].callCallback, session |-> s, state |-> state]
    /\ IF state = "ENDED"
       THEN sip_client' = [sip_client EXCEPT ![sessions[s].callCallback] = NoPhone]
       ELSE UNCHANGED sip_client
    /\ UNCHANGED <<host, port, password, username, from_numbers, config_of,
                   sessions, req, ret, gate, websocket>>

\* lines 82-86: the engine's thread of a started session s calls the callback
\* registered at line 74; the callback writes call.state to the logger
on_call_event(s, state) ==
    /\ sessions[s].status = "started"
    /\ logger' = [self |-> sessions[s].callCallback, session |-> s, state |-> state]
    /\ UNCHANGED <<provider, sessions, req, ret, gate, websocket>>

(* ----------------------- initiate_call, resumed ----------------------- *)

CallInitiationResult(call_id, status, prov, metadata) ==
    [call_id |-> call_id, status |-> status, provider |-> prov, metadata |-> metadata]

\* mutant: the except branch answers with a result instead of re-raising
initiate_call_resume_swallow(r) ==
    /\ ~req[r].cancelled
    /\ req[r].pc \in {"done", "raised"}
    /\ req' = [req EXCEPT ![r].pc = "returned",
                  ![r].result = CallInitiationResult(req[r].call_id, "ringing",
                                    PROVIDER_NAME, [sip_host |-> host[req[r].self]])]
    /\ UNCHANGED <<provider, sessions, ret, gate, websocket, logger>>

\* lines 115-129: the await ends with the worker's value or its exception
initiate_call_resume(r) ==
    /\ ~req[r].cancelled
    /\ \/ /\ req[r].pc = "done"
          /\ req' = [req EXCEPT ![r].pc = "returned",
                        ![r].result = CallInitiationResult(req[r].call_id, "ringing",
                                          PROVIDER_NAME, [sip_host |-> host[req[r].self]])]
       \/ /\ req[r].pc = "raised"
          /\ req' = [req EXCEPT ![r].pc = "failed"]
    /\ UNCHANGED <<provider, sessions, ret, gate, websocket, logger>>

(* --------------------- initiate_call, cancelled ----------------------- *)

\* mutant: the cancellation reaches the worker and ends its dial
cancel_abort(r) ==
    /\ ~req[r].cancelled
    /\ req[r].pc \in {"queued", "done", "raised"} \cup Executing
    /\ req' = [req EXCEPT ![r].cancelled = TRUE,
                          ![r].pc = IF @ \in {"done", "raised"} THEN @ ELSE "cancelled"]
    /\ UNCHANGED <<provider, sessions, ret, gate, websocket, logger>>

\* lines 115-119: the task awaiting run_in_executor is cancelled.  The
\* cancellation is passed on to the executor's future: a work item no worker
\* has taken is cancelled and is skipped when its turn comes; one that a
\* worker is running cannot be cancelled and runs on, its outcome unread.
\* CancelledError is not an Exception, so line 127 does not catch it.
cancel(r) ==
    /\ ~req[r].cancelled
    /\ req[r].pc \in {"queued", "done", "raised"} \cup Executing
    /\ req' = [req EXCEPT ![r].cancelled = TRUE,
                          ![r].pc = IF @ = "queued" THEN "cancelled" ELSE @]
    /\ UNCHANGED <<provider, sessions, ret, gate, websocket, logger>>

(* ------------------------------ lookups -------------------------------- *)

\* a call to validate_config from outside; ret holds what the last lookup
\* returned
validate_config_call(p) ==
    /\ ret' = [op |-> "validate_config", self |-> p, value |-> validate_config(p)]
    /\ UNCHANGED <<provider, sessions, req, gate, websocket, logger>>

\* mutant: the status is looked up on the session, which is created for it
get_call_status_on_session(p, call_id) ==
    /\ ret' = [op |-> "get_call_status", self |-> p, call_id |-> call_id,
               value |-> [status |-> "in-progress", call_id |-> call_id]]
    /\ IF sip_client[p] = NoPhone
       THEN /\ sessions' = Append(sessions,
                   [host |-> host[p], port |-> port[p], username |-> username[p],
                    password |-> password[p], callCallback |-> p,
                    status |-> "started", calls |-> 0])
            /\ sip_client' = [sip_client EXCEPT ![p] = Len(sessions) + 1]
       ELSE UNCHANGED <<sessions, sip_client>>
    /\ UNCHANGED <<host, port, password, username, from_numbers, config_of, req, gate, websocket, logger>>

\* lines 131-134: the optimistic status, whatever the call_id
get_call_status(p, call_id) ==
    /\ ret' = [op |-> "get_call_status", self |-> p, call_id |-> call_id,
               value |-> [status |-> "in-progress", call_id |-> call_id]]
    /\ UNCHANGED <<provider, sessions, req, gate, websocket, logger>>

\* lines 154-155: {"cost_usd": 0.0}
get_call_cost(p, call_id) ==
    /\ ret' = [op |-> "get_call_cost", self |-> p, call_id |-> call_id,
               value |-> [cost_usd |-> 0]]
    /\ UNCHANGED <<provider, sessions, req, gate, websocket, logger>>

\* the call ids a caller may ask about: those handed out, and one never seen
CallIds == {req[r].call_id : r \in Requests} \cup {"no-such-call"}

\* lines 136-137: return self.from_numbers
get_available_phone_numbers(p) ==
    /\ ret' = [op |-> "get_available_phone_numbers", self |-> p,
               value |-> from_numbers[p]]
    /\ UNCHANGED <<provider, sessions, req, gate, websocket, logger>>

(* --------------------------- media bridging ---------------------------- *)

\* no peer has opened the media socket
NoSocket == [state |-> "none", sent |-> <<>>, handled |-> FALSE]

\* a peer opens the media socket of a workflow run; the framework hands the
\* connection, not yet accepted, to handle_websocket
websocket_connect ==
    /\ websocket.state \in {"none", "accepted", "closed"}
    /\ websocket.state = "accepted" => websocket.handled
    /\ websocket' = [state |-> "connecting", sent |-> <<>>, handled |-> FALSE]
    /\ UNCHANGED <<provider, sessions, req, ret, gate, logger>>

\* lines 170-171: await websocket.accept(), a warning in the log, and the
\* coroutine returns; nothing is sent to the peer and the socket is not closed
handle_websocket(p) ==
    /\ websocket.state = "connecting"
    /\ websocket' = [websocket EXCEPT !.state = "accepted", !.handled = TRUE]
    /\ UNCHANGED <<provider, sessions, req, ret, gate, logger>>

(* ------------------------------ inbound -------------------------------- *)

\* mutant: the backend claims the payloads sent to its own endpoint
can_handle_webhook_own(webhook_data, headers) == webhook_data.shape = "lcr"

\* mutant: the backend claims every payload
can_handle_webhook_any(webhook_data, headers) == TRUE

\* lines 174-176: this backend claims no payload
can_handle_webhook(webhook_data, headers) == FALSE

\* lines 142-145: every signature passes
verify_webhook_signature(p, url, params, signature) == TRUE

\* mutant: the payload is handed back as if it were normalized
parse_inbound_webhook_echo(webhook_data) == [data |-> webhook_data]

\* lines 178-180: raise NotImplementedError
parse_inbound_webhook(webhook_data) == [raised |-> "NotImplementedError"]

\* a call to parse_inbound_webhook from outside: ret holds what it returned or
\* raised
parse_inbound_webhook_call(webhook_data) ==
    /\ ret' = [op |-> "parse_inbound_webhook", webhook_data |-> webhook_data,
               value |-> parse_inbound_webhook(webhook_data)]
    /\ UNCHANGED <<provider, sessions, req, gate, websocket, logger>>

(* The authenticity gate of the router that owns the backends: Unclassified,
   Classified, Verified, Normalized, or Rejected with a reason.  The router
   holds the LCR backend and may hold a backend driven by webhooks, which
   claims the payloads of its own shape, checks their signature and parses
   them when no mandatory field is missing. *)
Backends == {<<"lcr">>, <<"webhook", "lcr">>, <<"lcr", "webhook">>}

Payloads == [shape : {"lcr", "webhook", "other"}, complete : BOOLEAN]
Headers == [signature : {"valid", "invalid"}]

Idle == [state |-> "Idle", reason |-> "", payload |-> [shape |-> "", complete |-> FALSE],
         headers |-> [signature |-> ""], backends |-> <<>>, backend |-> "", trace |-> <<>>]

Claims(b, payload, headers) ==
    IF b = "lcr" THEN can_handle_webhook(payload, headers)
    ELSE payload.shape = "webhook"

Moved(state) == [gate EXCEPT !.state = state, !.trace = Append(@, state)]
Rejected(reason) == [Moved("Rejected") EXCEPT !.reason = reason]

GateReceive(backends, payload, headers) ==
    /\ gate.state \in {"Idle", "Normalized", "Rejected"}
    /\ gate' = [Idle EXCEPT !.state = "Unclassified", !.payload = payload,
                            !.headers = headers, !.backends = backends,
                            !.trace = <<"Unclassified">>]
    /\ UNCHANGED <<provider, sessions, req, ret, websocket, logger>>

\* the backends are asked in their fixed order and the first match wins
GateClassify ==
    /\ gate.state = "Unclassified"
    /\ LET match == {i \in DOMAIN gate.backends :
                        Claims(gate.backends[i], gate.payload, gate.headers)}
       IN IF match = {}
          THEN gate' = Rejected("Unroutable")
          ELSE LET first == CHOOSE i \in match : \A j \in match : i <= j
               IN gate' = [Moved("Classified") EXCEPT !.backend = gate.backends[first]]
    /\ UNCHANGED <<provider, sessions, req, ret, websocket, logger>>

GateVerify ==
    /\ gate.state = "Classified"
    /\ LET passes ==
              IF gate.backend = "lcr"
              THEN \E p \in Providers :
                      verify_webhook_signature(p, "url", gate.payload, gate.headers.signature)
              ELSE gate.headers.signature = "valid"
       IN gate' = IF passes THEN Moved("Verified") ELSE Rejected("AuthenticityFailed")
    /\ UNCHANGED <<provider, sessions, req, ret, websocket, logger>>

GateNormalize ==
    /\ gate.state = "Verified"
    /\ LET parsed ==
              IF gate.backend = "lcr" THEN parse_inbound_webhook(gate.payload)
              ELSE IF gate.payload.complete THEN [data |-> gate.payload]
              ELSE [raised |-> "MalformedPayload"]
       IN gate' = IF "raised" \in DOMAIN parsed
                  THEN Rejected("MalformedPayload") ELSE Moved("Normalized")
    /\ UNCHANGED <<provider, sessions, req, ret, websocket, logger>>

(* --------------------------- specification ---------------------------- *)

NoReturn == [op |-> "none"]

Init ==
    /\ host = <<>> /\ port = <<>> /\ password = <<>> /\ username = <<>>
    /\ from_numbers = <<>> /\ sip_client = <<>> /\ config_of = <<>>
    /\ sessions = <<>>
    /\ req = <<>>
    /\ ret = NoReturn
    /\ gate = Idle
    /\ websocket = NoSocket
    /\ logger = NoEvent

Next ==
    \/ \E config \in DialConfigs : LCRProvider(config, MaxProviders)
    \/ \E p \in Providers, to_number \in DialNumbers :
          initiate_call(p, to_number, MaxRequests)
    \/ \E r \in Requests : run_in_executor(r)
    \/ \E r \in Requests : get_sip_client_check(r)
    \/ \E r \in Requests : get_sip_client_new(r)
    \/ \E r \in Requests : get_sip_client_start(r)
    \/ \E r \in Requests : get_sip_client_return(r)
    \/ \E r \in Requests : do_sip_call(r)
    \/ \E r \in Requests : initiate_call_resume(r)

Spec == Init /\ [][Next]_vars

\* The worker pool: a provider whose session an earlier dial has brought up
\* (sip_client set, the session started) takes max_workers + PoolExcess
\* requests.  No further provider is constructed and no session is created.
PoolRequests == max_workers + PoolExcess

InitPool ==
    /\ host = <<"h">> /\ port = <<DEFAULT_PORT>> /\ password = <<"p">>
    /\ username = <<"u">> /\ from_numbers = << <<"+15551230000">> >>
    /\ sip_client = <<1>> /\ config_of = <<FullConfig>>
    /\ sessions = <<[host |-> "h", port |-> DEFAULT_PORT, username |-> "u",
                     password |-> "p", callCallback |-> 1,
                     status |-> "started", calls |-> 0]>>
    /\ req = <<>>
    /\ ret = NoReturn
    /\ gate = Idle
    /\ websocket = NoSocket
    /\ logger = NoEvent

NextPool ==
    \/ \E p \in Providers, to_number \in DialNumbers :
          initiate_call(p, to_number, PoolRequests)
    \/ \E r \in Requests : run_in_executor(r)
    \/ \E r \in Requests : get_sip_client_check(r)
    \/ \E r \in Requests : get_sip_client_return(r)
    \/ \E r \in Requests : do_sip_call(r)
    \/ \E r \in Requests : initiate_call_resume(r)

SpecPool == InitPool /\ [][NextPool]_vars

\* The worker pool when it is full: the provider of InitPool with max_workers
\* dials inside phone.call on its session, a state the pool specification
\* reaches.  The scheduling: a thread that runs a work item goes on to its
\* next statement (the engine's call returns or raises), a free thread takes
\* the oldest queued item, and the event loop resumes an awaiter whose future
\* is done.  Fairness is asked of these steps together, which is less than
\* each thread's own.
InitBusy ==
    /\ host = <<"h">> /\ port = <<DEFAULT_PORT>> /\ password = <<"p">>
    /\ username = <<"u">> /\ from_numbers = << <<"+15551230000">> >>
    /\ sip_client = <<1>> /\ config_of = <<FullConfig>>
    /\ sessions = <<[host |-> "h", port |-> DEFAULT_PORT, username |-> "u",
                     password |-> "p", callCallback |-> 1,
                     status |-> "started", calls |-> 0]>>
    /\ req = [r \in 1..max_workers |->
                [self |-> 1, to_number |-> "+15557654321", pc |-> "call",
                 phone |-> 1, call_id |-> None, error |-> None,
                 attempts |-> 0, result |-> NoResult, cancelled |-> FALSE]]
    /\ ret = NoReturn
    /\ gate = Idle
    /\ websocket = NoSocket
    /\ logger = NoEvent

Progress ==
    \E r \in Requests :
        run_in_executor(r) \/ WorkerStep(r) \/ initiate_call_resume(r)

FairPool == WF_vars(Progress)

SpecPoolFair == InitBusy /\ [][NextPool]_vars /\ FairPool

\* Protocol events: one provider, constructed from a complete config and with
\* no session yet, dials while the engine's thread delivers call events.
InitEvents ==
    /\ host = <<"h">> /\ port = <<DEFAULT_PORT>> /\ password = <<"p">>
    /\ username = <<"u">> /\ from_numbers = << <<"+15551230000">> >>
    /\ sip_client = <<NoPhone>> /\ config_of = <<FullConfig>>
    /\ sessions = <<>>
    /\ req = <<>>
    /\ ret = NoReturn
    /\ gate = Idle
    /\ websocket = NoSocket
    /\ logger = NoEvent

NextEvents ==
    \/ \E p \in Providers, to_number \in DialNumbers :
          initiate_call(p, to_number, MaxRequests)
    \/ \E r \in Requests : run_in_executor(r)
    \/ \E r \in Requests : get_sip_client_check(r)
    \/ \E r \in Requests : get_sip_client_new(r)
    \/ \E r \in Requests : get_sip_client_start(r)
    \/ \E r \in Requests : get_sip_client_return(r)
    \/ \E r \in Requests : do_sip_call(r)
    \/ \E r \in Requests : initiate_call_resume(r)
    \/ \E s \in DOMAIN sessions, state \in CallStates : on_call_event(s, state)

SpecEvents == InitEvents /\ [][NextEvents]_vars

\* Cancellation: the dials of one provider, each of which its caller may
\* cancel while it waits.
NextCancel ==
    \/ \E p \in Providers, to_number \in DialNumbers :
          initiate_call(p, to_number, MaxRequests)
    \/ \E r \in Requests : run_in_executor(r)
    \/ \E r \in Requests : get_sip_client_check(r)
    \/ \E r \in Requests : get_sip_client_new(r)
    \/ \E r \in Requests : get_sip_client_start(r)
    \/ \E r \in Requests : get_sip_client_return(r)
    \/ \E r \in Requests : do_sip_call(r)
    \/ \E r \in Requests : initiate_call_resume(r)
    \/ \E r \in Requests : cancel(r)

SpecCancel == InitEvents /\ [][NextCancel]_vars

\* The lookups, polled at any point of a provider's life and of its dials.
NextQuery ==
    \/ \E config \in Configs : LCRProvider(config, QueryProviders)
    \/ \E p \in Providers, to_number \in DialNumbers :
          initiate_call(p, to_number, QueryRequests)
    \/ \E r \in Requests : run_in_executor(r)
    \/ \E r \in Requests : get_sip_client_check(r)
    \/ \E r \in Requests : get_sip_client_new(r)
    \/ \E r \in Requests : get_sip_client_start(r)
    \/ \E r \in Requests : get_sip_client_return(r)
    \/ \E r \in Requests : do_sip_call(r)
    \/ \E r \in Requests : initiate_call_resume(r)
    \/ \E p \in Providers : validate_config_call(p)
    \/ \E p \in Providers, call_id \in CallIds : get_call_status(p, call_id)
    \/ \E p \in Providers, call_id \in CallIds : get_call_cost(p, call_id)

SpecQuery == Init /\ [][NextQuery]_vars

\* The rest of the contract: the numbers a provider offers and the media
\* socket, beside the construction of providers.
NextContract ==
    \/ \E config \in Configs : LCRProvider(config, MaxProviders)
    \/ \E p \in Providers : get_available_phone_numbers(p)
    \/ websocket_connect
    \/ \E p \in Providers : handle_websocket(p)

SpecContract == Init /\ [][NextContract]_vars

\* The inbound gate, beside the construction of providers.
NextGate ==
    \/ \E config \in Configs : LCRProvider(config, QueryProviders)
    \/ \E backends \in Backends, payload \in Payloads, headers \in Headers :
          GateReceive(backends, payload, headers)
    \/ GateClassify
    \/ GateVerify
    \/ GateNormalize
    \/ \E payload \in Payloads : parse_inbound_webhook_call(payload)

SpecGate == Init /\ [][NextGate]_vars

(* ------------------------------ claims -------------------------------- *)

\* a credential that is missing or the empty string
Empty(x) == x \in {None, ""}
Incomplete(p) == Empty(host[p]) \/ Empty(username[p]) \/ Empty(password[p])

SessionsOf(p) == {s \in DOMAIN sessions : sessions[s].callCallback = p}
Identity(s) == <<sessions[s].host, sessions[s].username, sessions[s].password>>
Live(s) == sessions[s].status = "started"

\* C1: the N concurrent dials of one provider construct one VoIPPhone in
\* total and every one of them obtains that same session.
C1_OneSessionUnderRace ==
    \A p \in Providers :
        /\ Cardinality(SessionsOf(p)) <= 1
        /\ \A r1, r2 \in Requests :
              (/\ req[r1].self = p /\ req[r2].self = p
               /\ req[r1].phone # NoPhone /\ req[r2].phone # NoPhone)
              => req[r1].phone = req[r2].phone

\* C2: in every reachable state an identity (host, username, password) has
\* at most one live session, over all provider instances.
C2_OneLiveSessionPerIdentity ==
    \A s1, s2 \in DOMAIN sessions :
        (Live(s1) /\ Live(s2) /\ Identity(s1) = Identity(s2)) => s1 = s2

C4_NoResultAfterRaise ==
    \A r \in Requests :
        /\ req[r].error # None =>
              /\ req[r].result = NoResult
              /\ req[r].pc \in {"raised", "failed"}
              /\ req[r].call_id = None
        /\ req[r].result # NoResult =>
              /\ req[r].error = None
              /\ req[r].pc = "returned"
              /\ req[r].result.status = "ringing"

C4_Witness ==
    /\ \E r \in Requests : req[r].pc = "failed" /\ req[r].error = DialFailed
    /\ \E r \in Requests : req[r].pc = "failed" /\ req[r].error = SessionUnavailable

\* C5: on a provider with an empty host, username or password every request
\* fails with ConfigInvalid, and the provider never gets a session: none is
\* constructed or started, no dial is attempted, sip_client stays unset.
C5_ConfigInvalidNoSession ==
    \A p \in Providers : Incomplete(p) =>
        /\ sip_client[p] = NoPhone
        /\ SessionsOf(p) = {}
        /\ \A r \in Requests : req[r].self = p =>
              /\ req[r].pc \in {"queued", "get", "raised", "failed"}
              /\ req[r].pc \in {"raised", "failed"} => req[r].error = ConfigInvalid
              /\ req[r].attempts = 0
              /\ req[r].phone = NoPhone
              /\ req[r].call_id = None
              /\ req[r].result = NoResult

C5_Witness ==
    \E r \in Requests :
        /\ req[r].pc = "failed"
        /\ req[r].error = ConfigInvalid
        /\ Empty(host[req[r].self])

\* C6: a request on a provider with incomplete credentials is never handed
\* to the worker pool: it is neither queued nor running on a worker.
C6_ConfigInvalidBeforePool ==
    \A r \in Requests :
        Incomplete(req[r].self) => req[r].pc \notin ({"queued"} \cup Executing)

\* C7: a call of validate_config changes nothing of the providers, the
\* sessions or the requests, and answers false exactly when one of host,
\* username, password is empty.
C7_ValidateConfigPure ==
    [][\A p \in Providers : validate_config_call(p) =>
          /\ UNCHANGED <<provider, sessions, req, gate, websocket, logger>>
          /\ ret'.value = ~Incomplete(p)]_vars

C7_Witness ==
    /\ ret.op = "validate_config"
    /\ ~ret.value
    /\ Empty(username[ret.self])
    /\ \E r \in Requests : req[r].pc = "get"

\* C8: a request makes at most one attempt to create the session; when the
\* attempt raises, the request ends with that error and no result, and
\* sessions are created by requests only, one attempt each.
C8_OneCreationAttempt ==
    /\ \A r \in Requests :
          /\ req[r].attempts <= 1
          /\ req[r].error = SessionUnavailable =>
                /\ req[r].attempts = 1
                /\ req[r].pc \in {"raised", "failed"}
                /\ req[r].result = NoResult
    /\ Len(sessions) <= Cardinality({r \in Requests : req[r].attempts = 1})

C8_Witness ==
    \E r \in Requests :
        /\ req[r].pc = "failed"
        /\ req[r].error = SessionUnavailable
        /\ sip_client[req[r].self] = NoPhone

\* C9: get_call_status and get_call_cost change nothing of the providers,
\* the sessions or the requests, their answer is a function of the call_id
\* alone, and get_call_status answers "in-progress" with that call_id.
C9_LookupsPure ==
    [][\A p \in Providers, call_id \in CallIds :
          (get_call_status(p, call_id) \/ get_call_cost(p, call_id)) =>
             /\ UNCHANGED <<provider, sessions, req, gate, websocket, logger>>
             /\ ret'.call_id = call_id
             /\ ret'.op = "get_call_status" =>
                   ret'.value = [status |-> "in-progress", call_id |-> call_id]
             /\ ret'.op = "get_call_cost" => ret'.value = [cost_usd |-> 0]]_vars

C9_Witness ==
    /\ ret.op = "get_call_status"
    /\ ret.call_id = "no-such-call"
    /\ sip_client[ret.self] = NoPhone
    /\ sessions = <<>>

Terminal == gate.state \in {"Normalized", "Rejected"}
Reached(state) == \E i \in DOMAIN gate.trace : gate.trace[i] = state
ForLcrInvalid == gate.payload.shape = "lcr" /\ gate.headers.signature = "invalid"

\* C10 as stated: a payload of this backend's shape with an invalid signature
\* is Classified and ends in Rejected(AuthenticityFailed), never Verified.
C10_AuthenticityFailed ==
    (ForLcrInvalid /\ Terminal) =>
        /\ gate.state = "Rejected" /\ gate.reason = "AuthenticityFailed"
        /\ Reached("Classified")
        /\ ~Reached("Verified") /\ ~Reached("Normalized")

\* C10, amended: such a payload ends in Rejected(Unroutable), because the LCR
\* backend claims no payload: the gate never reaches Classified, Verified or
\* Normalized for it.
C10_Unroutable ==
    ForLcrInvalid =>
        /\ ~Reached("Classified") /\ ~Reached("Verified") /\ ~Reached("Normalized")
        /\ Terminal => (gate.state = "Rejected" /\ gate.reason = "Unroutable")

C10_Witness ==
    /\ ForLcrInvalid
    /\ gate.state = "Rejected" /\ gate.reason = "Unroutable"
    /\ gate.backends = <<"lcr">>
    /\ Providers # {}

Claimants(backends, payload, headers) ==
    {i \in DOMAIN backends : Claims(backends[i], payload, headers)}

\* C11: whatever the payload and the headers, at most one registered backend
\* claims them and the LCR backend never does: it is never the backend of a
\* classified payload, and a router holding only it ends every payload in
\* Rejected(Unroutable).
C11_NoDoubleClaim ==
    /\ \A backends \in Backends, payload \in Payloads, headers \in Headers :
          /\ Cardinality(Claimants(backends, payload, headers)) <= 1
          /\ \A i \in Claimants(backends, payload, headers) : backends[i] # "lcr"
    /\ gate.backend # "lcr"
    /\ (gate.backends = <<"lcr">> /\ Terminal) =>
          (gate.state = "Rejected" /\ gate.reason = "Unroutable")

C11_Witness ==
    /\ gate.backends = <<"lcr">>
    /\ gate.payload.shape = "webhook" /\ gate.headers.signature = "valid"
    /\ gate.state = "Rejected" /\ gate.reason = "Unroutable"
    /\ gate.trace = <<"Unclassified", "Rejected">>

\* C12: parse_inbound_webhook raises NotImplementedError for every payload
\* and never yields normalized data, complete or partial.
C12_ParseNotSupported ==
    ret.op = "parse_inbound_webhook" =>
        /\ ret.value = [raised |-> "NotImplementedError"]
        /\ "data" \notin DOMAIN ret.value

C12_Witness ==
    /\ ret.op = "parse_inbound_webhook"
    /\ ret.webhook_data = [shape |-> "lcr", complete |-> TRUE]
    /\ "raised" \in DOMAIN ret.value

\* C13: when handle_websocket has returned for a connection a peer opened,
\* the connection was accepted and non-support was signalled to the peer, by
\* a message sent or by a close: no accepted connection is left open and
\* silent.
C13_SignalsNonSupport ==
    websocket.handled =>
        \/ websocket.state = "closed"
        \/ websocket.sent # <<>>

\* C15: get_available_phone_numbers returns a sequence for every
\* configuration: <<s>> for a from_numbers given as the string s, the same
\* elements for one given as a sequence, and the empty sequence for none.
C15_NumbersAreASequence ==
    ret.op = "get_available_phone_numbers" =>
        LET config == config_of[ret.self]
        IN /\ DOMAIN ret.value = 1..Len(ret.value)
           /\ IF "from_numbers" \notin DOMAIN config
              THEN ret.value = <<>>
              ELSE IF isinstance(config.from_numbers, "str")
                   THEN ret.value = <<config.from_numbers.str>>
                   ELSE ret.value = config.from_numbers.list

C15_Witness ==
    /\ ret.op = "get_available_phone_numbers"
    /\ config_of[ret.self] = FullConfig
    /\ ret.value = <<"+15551230000">>

Returned == {r \in Requests : req[r].pc = "returned"}

\* C14: the result of a successful initiate_call carries the call id its own
\* dial was given, with status "ringing" and provider "lcr", and no two
\* successful attempts return the same call_id.
C14_OwnUniqueCallId ==
    /\ \A r \in Returned :
          /\ req[r].result.call_id = req[r].call_id
          /\ req[r].result.status = "ringing"
          /\ req[r].result.provider = PROVIDER_NAME
    /\ \A r1, r2 \in Returned :
          r1 # r2 => req[r1].result.call_id # req[r2].result.call_id

\* C17: a protocol event delivered to _on_call_event, at any point of the
\* dials in flight, leaves sip_client, the credentials, from_numbers, the
\* sessions and every request (its position and its result) as they were.
C17_CallbackFrame ==
    [][\A s \in DOMAIN sessions, state \in CallStates :
          on_call_event(s, state) => UNCHANGED <<provider, sessions, req, ret>>]_vars

C17_Witness ==
    /\ logger.state = "ENDED"
    /\ sip_client[logger.self] = logger.session
    /\ \E r \in Requests : req[r].pc = "call" /\ req[r].phone = logger.session
    /\ \E r \in Requests : req[r].pc = "queued"

\* C20: a session whose start raised is not left in sip_client, and a dial
\* that has got its phone from _get_sip_client holds a session that was
\* started successfully.
C20_CachedSessionStarted ==
    /\ \A p \in Providers :
          sip_client[p] # NoPhone => sessions[sip_client[p]].status # "failed"
    /\ \A r \in Requests :
          req[r].pc = "call" => sessions[req[r].phone].status = "started"

\* the dials inside phone.call on session s
InCall(s) == {r \in Requests : req[r].pc = "call" /\ req[r].phone = s}

\* C18: the use of an existing session is not serialized: a dial that has
\* found the session is never kept from entering phone.call by the dials
\* already inside it, and the dials inside phone.call on one session are
\* bounded by the pool's ceiling only.
C18_ConcurrentUse ==
    /\ \A r \in Requests : req[r].pc = "return" => ENABLED get_sip_client_return(r)
    /\ \A s \in DOMAIN sessions : Cardinality(InCall(s)) <= max_workers

C18_Witness ==
    /\ Cardinality(InCall(1)) = max_workers
    /\ \E r \in Requests : req[r].pc = "queued"

At(r, pcs) == r \in Requests /\ req[r].pc \in pcs

\* C16: a dial that a worker executes ends, with a call id or with an
\* exception; one that raised holds no worker, and its initiate_call is
\* resumed and fails with that error; and a dial that waits in the queue is
\* started, whatever dials failed before it.
C16_DialTerminates ==
    /\ [](\A r \in Requests :
             /\ req[r].pc = "raised" => r \notin Running /\ req[r].error # None
             /\ req[r].pc = "failed" => req[r].error # None /\ req[r].result = NoResult)
    /\ <>[](\A r \in Requests : req[r].pc \in {"returned", "failed"})
    /\ At(PoolRequests, {"queued"}) ~> At(PoolRequests, Executing)

C16_Witness ==
    /\ At(PoolRequests, Executing)
    /\ Cardinality(Running) = max_workers
    /\ \E r \in Requests : req[r].pc = "failed" /\ req[r].error = DialFailed

====
